---- MODULE Spec2Model ----
(***************************************************************************)
(* Model of the Digest/Basic-capable HTTP GET factory of                   *)
(* twistedcaldav/util.py: calcHA1, calcResponse and                        *)
(* AuthorizedHTTPGetter.handleStatus_401.                                  *)
(*                                                                         *)
(* Strings are sequences of one-character strings wherever the code looks  *)
(* inside them (the WWW-Authenticate values, the directive names and       *)
(* values); text the code only concatenates (user name, password, URL,     *)
(* literal parts of messages) is a sequence of longer tokens.              *)
(***************************************************************************)
EXTENDS Integers, Sequences, FiniteSets, TLC

----------------------------------------------------------------------------
(* Bounds of the model.                                                    *)

\* Longest list of WWW-Authenticate values carried by one 401 response.
MaxItems == 2

----------------------------------------------------------------------------
(* Python values.                                                          *)

\* Python's None where a string is expected. No string of the model has a
\* multi-character first element that is equal to this one.
None == <<"<None>">>

\* '%s' % v
Fmt(v) == IF v = None THEN <<"N", "o", "n", "e">> ELSE v

\* Python truth value of an optional string.
Truthy(v) == v # None /\ v # <<>>

Ok(v) == [err |-> "none", val |-> v]
Raise(e) == [err |-> e, val |-> <<>>]
\* raise e(msg)
RaiseMsg(e, msg) == [err |-> e, val |-> msg]

\* dict
EmptyDict == [k \in {} |-> <<>>]
DictSet(d, k, v) == [x \in (DOMAIN d) \cup {k} |-> IF x = k THEN v ELSE d[x]]
DictGet(d, k) == IF k \in DOMAIN d THEN d[k] ELSE None

----------------------------------------------------------------------------
(* str methods used by the handler.                                        *)

Whitespace == {" ", "\t"}

startswith(s, prefix) ==
    /\ Len(s) >= Len(prefix)
    /\ SubSeq(s, 1, Len(prefix)) = prefix

\* s[n:]
SliceFrom(s, n) == SubSeq(s, n + 1, Len(s))

\* s.split(sep): every piece between separators, empty pieces included.
RECURSIVE split(_, _)
split(s, sep) ==
    IF \A i \in 1..Len(s) : s[i] # sep
    THEN <<s>>
    ELSE LET i == CHOOSE j \in 1..Len(s) :
                      s[j] = sep /\ \A m \in 1..(j - 1) : s[m] # sep
         IN  <<SubSeq(s, 1, i - 1)>> \o split(SliceFrom(s, i), sep)

\* s.split(sep, 1): one piece, or the text before and after the first sep.
split1(s, sep) ==
    IF \A i \in 1..Len(s) : s[i] # sep
    THEN <<s>>
    ELSE LET i == CHOOSE j \in 1..Len(s) :
                      s[j] = sep /\ \A m \in 1..(j - 1) : s[m] # sep
         IN  <<SubSeq(s, 1, i - 1), SliceFrom(s, i)>>

RECURSIVE lstrip(_)
lstrip(s) ==
    IF s # <<>> /\ Head(s) \in Whitespace THEN lstrip(Tail(s)) ELSE s

RECURSIVE rstrip(_)
rstrip(s) ==
    IF s # <<>> /\ s[Len(s)] \in Whitespace
    THEN rstrip(SubSeq(s, 1, Len(s) - 1))
    ELSE s

strip(s) == lstrip(rstrip(s))

\* unq of handleStatus_401: s[0] of an empty string raises IndexError.
unq(s) ==
    IF s = <<>> THEN Raise("IndexError")
    ELSE IF s[1] = "\"" /\ s[Len(s)] = "\"" THEN Ok(SubSeq(s, 2, Len(s) - 1))
    ELSE Ok(s)

----------------------------------------------------------------------------
(* Words of the protocol, letter by letter.                                *)

W_basic_  == <<"b", "a", "s", "i", "c", " ">>
W_digest_ == <<"d", "i", "g", "e", "s", "t", " ">>
K_algorithm == <<"a", "l", "g", "o", "r", "i", "t", "h", "m">>
K_realm   == <<"r", "e", "a", "l", "m">>
K_nonce   == <<"n", "o", "n", "c", "e">>
K_cnonce  == <<"c", "n", "o", "n", "c", "e">>
K_nc      == <<"n", "c">>
K_qop     == <<"q", "o", "p">>
A_md5     == <<"m", "d", "5">>
A_md5sess == <<"m", "d", "5", "-", "s", "e", "s", "s">>
A_sha     == <<"s", "h", "a">>
Q_authint == <<"a", "u", "t", "h", "-", "i", "n", "t">>

----------------------------------------------------------------------------
(* hashlib. A digest is kept symbolic: the hash function's name around the *)
(* message it was fed, so different messages or functions give different   *)
(* digests; the hex encoding wraps the raw digest and decoding unwraps it.  *)

algorithms ==
    [a \in {A_md5, A_md5sess, A_sha} |-> IF a = A_sha THEN "sha1" ELSE "md5"]

\* m = fn(); m.update(...); m.digest()
digest(fn, msg) == <<fn, "[">> \o msg \o <<"]">>

\* s.encode('hex'); the empty string encodes to the empty string.
EncodeHex(raw) == IF raw = <<>> THEN <<>> ELSE <<"hex(">> \o raw \o <<")">>

IsHex(s) == Len(s) >= 2 /\ s[1] = "hex(" /\ s[Len(s)] = ")"

\* s.decode('hex'): TypeError on text that is no hex string.
DecodeHex(s) ==
    IF s = <<>> THEN Ok(<<>>)
    ELSE IF IsHex(s) THEN Ok(SubSeq(s, 2, Len(s) - 1))
    ELSE Raise("TypeError")

Colon == <<":">>


----------------------------------------------------------------------------
(* DigestCalcHA1                                                           *)

\* The HA1 before the md5-sess step: hashed from username:realm:password,
\* or decoded from preHA1. algorithms[pszAlg] raises KeyError for a name the
\* table does not hold (None included); update(None) raises TypeError.
BaseHA1(pszAlg, pszUserName, pszRealm, pszPassword, preHA1) ==
    IF preHA1 = None
    THEN IF pszAlg \notin DOMAIN algorithms THEN Raise("KeyError")
         ELSE IF pszUserName = None \/ pszRealm = None \/ pszPassword = None
         THEN Raise("TypeError")
         ELSE Ok(digest(algorithms[pszAlg],
                        pszUserName \o Colon \o pszRealm \o Colon \o pszPassword))
    ELSE DecodeHex(preHA1)

MsgIncompatible ==
    <<"preHA1 is incompatible with the pszUserName, pszRealm, and pszPassword arguments">>

\* A test that looks at the username only.
IncompatibleUserName(preHA1, pszUserName, pszRealm, pszPassword) ==
    Truthy(preHA1) /\ Truthy(pszUserName)

\* preHA1 and (pszUserName or pszRealm or pszPassword)
Incompatible(preHA1, pszUserName, pszRealm, pszPassword) ==
    Truthy(preHA1)
    /\ (Truthy(pszUserName) \/ Truthy(pszRealm) \/ Truthy(pszPassword))

calcHA1(pszAlg, pszUserName, pszRealm, pszPassword, pszNonce, pszCNonce, preHA1) ==
    IF Incompatible(preHA1, pszUserName, pszRealm, pszPassword)
    THEN RaiseMsg("TypeError", MsgIncompatible)
    ELSE LET HA1 == BaseHA1(pszAlg, pszUserName, pszRealm, pszPassword, preHA1)
         IN  IF HA1.err # "none" THEN HA1
             ELSE IF pszAlg = A_md5sess
             THEN IF pszNonce = None \/ pszCNonce = None
                  THEN Raise("TypeError")
                  ELSE Ok(EncodeHex(digest(algorithms[pszAlg],
                              HA1.val \o Colon \o pszNonce \o Colon \o pszCNonce)))
             ELSE Ok(EncodeHex(HA1.val))

----------------------------------------------------------------------------
(* DigestCalcResponse                                                      *)

\* A test that looks at qop only.
UseQopFormQopOnly(pszNonceCount, pszCNonce, pszQop) == Truthy(pszQop)

\* The test that selects the message form of the response hash.
UseQopForm(pszNonceCount, pszCNonce, pszQop) ==
    Truthy(pszNonceCount) /\ Truthy(pszCNonce) /\ Truthy(pszQop)

\* HA2, hex encoded. With qop "auth-int" the entity hash is fed too, and
\* update(None) raises TypeError.
calcHA2(algo, pszQop, pszMethod, pszDigestUri, pszHEntity) ==
    IF pszMethod = None \/ pszDigestUri = None THEN Raise("TypeError")
    ELSE IF pszQop = Q_authint
    THEN IF pszHEntity = None THEN Raise("TypeError")
         ELSE Ok(EncodeHex(digest(algorithms[algo],
                     pszMethod \o Colon \o pszDigestUri \o Colon \o pszHEntity)))
    ELSE Ok(EncodeHex(digest(algorithms[algo], pszMethod \o Colon \o pszDigestUri)))

\* The message of the response hash.
ResponseMessage(HA1, pszNonce, pszNonceCount, pszCNonce, pszQop, HA2) ==
    HA1 \o Colon \o pszNonce \o Colon
        \o (IF UseQopForm(pszNonceCount, pszCNonce, pszQop)
            THEN pszNonceCount \o Colon \o pszCNonce \o Colon \o pszQop \o Colon
            ELSE <<>>)
        \o HA2

calcResponse(HA1, algo, pszNonce, pszNonceCount, pszCNonce, pszQop, pszMethod, pszDigestUri, pszHEntity) ==
    IF algo \notin DOMAIN algorithms THEN Raise("KeyError")
    ELSE LET HA2 == calcHA2(algo, pszQop, pszMethod, pszDigestUri, pszHEntity)
         IN  IF HA2.err # "none" THEN HA2
             ELSE IF HA1 = None \/ pszNonce = None THEN Raise("TypeError")
             ELSE Ok(EncodeHex(digest(algorithms[algo],
                         ResponseMessage(HA1, pszNonce, pszNonceCount,
                                         pszCNonce, pszQop, HA2.val))))

----------------------------------------------------------------------------
(* The WWW-Authenticate loop of handleStatus_401.                          *)

\* The value of self.headers.get("www-authenticate"): None when the response
\* has no such header, else the list of its values.
NoHeader == [present |-> FALSE, items |-> <<>>]
HeaderList(items) == [present |-> TRUE, items |-> items]

\* for (k, v) in [p.split('=', 1) for p in parts]: details[k.strip()] = unq(v.strip())
\* A part without '=' does not unpack into (k, v): ValueError.
RECURSIVE ParseParts(_, _)
ParseParts(parts, details) ==
    IF parts = <<>> THEN Ok(details)
    ELSE LET kv == split1(Head(parts), "=")
         IN  IF Len(kv) # 2 THEN Raise("ValueError")
             ELSE LET v == unq(strip(kv[2]))
                  IN  IF v.err # "none" THEN Raise(v.err)
                      ELSE ParseParts(Tail(parts),
                                      DictSet(details, strip(kv[1]), v.val))

\* The scheme tests; the comparison is of the characters as they are.
IsBasicItem(item) == startswith(item, W_basic_)
IsDigestItem(item) == startswith(item, W_digest_)

ParseState(b, d, details) ==
    [basicAvailable |-> b, digestAvailable |-> d, details |-> details]

\* for item in wwwauth: ...
RECURSIVE ParseItems(_, _)
ParseItems(items, st) ==
    IF items = <<>> THEN Ok(st)
    ELSE LET item == Head(items)
             b == st.basicAvailable \/ IsBasicItem(item)
         IN  IF IsDigestItem(item)
             THEN LET d == ParseParts(split(SliceFrom(item, 7), ","), st.details)
                  IN  IF d.err # "none" THEN Raise(d.err)
                      ELSE ParseItems(Tail(items), ParseState(b, TRUE, d.val))
             ELSE ParseItems(Tail(items),
                             ParseState(b, st.digestAvailable, st.details))

\* Lines 382-397: iterating None raises TypeError.
ParseChallenge(wwwauth) ==
    IF ~wwwauth.present THEN Raise("TypeError")
    ELSE ParseItems(wwwauth.items, ParseState(FALSE, FALSE, EmptyDict))

----------------------------------------------------------------------------
(* The results a request cycle can deliver to the factory's deferred.      *)

Unauthorized(msg) == [kind |-> "Unauthorized", detail |-> msg]
Page(status) == [kind |-> "page", detail |-> <<status>>]
ConnectionFailure == [kind |-> "ConnectionLost", detail |-> <<>>]

MsgAuthenticationRequired == <<"Authentication required">>
\* The message without the user's name.
MsgCouldNotAuthenticateNobody(username) ==
    <<"Could not authenticate user ">> \o <<" with calendar server">>

MsgCouldNotAuthenticate(username) ==
    <<"Could not authenticate user ">> \o username \o <<" with calendar server">>
MsgNoScheme ==
    <<"Mail gateway not able to process reply; calendar server returned 401 and doesn't support basic or digest">>

----------------------------------------------------------------------------
(* The Authorization header values.                                        *)

\* base64.encodestring(s): the encoding, ended by a newline.
encodestring(s) == <<"b64(">> \o s \o <<")", "\n">>

\* s.replace("\n", "")
RECURSIVE DropNewlines(_)
DropNewlines(s) ==
    IF s = <<>> THEN <<>>
    ELSE IF Head(s) = "\n" THEN DropNewlines(Tail(s))
    ELSE <<Head(s)>> \o DropNewlines(Tail(s))

BasicPrefix == <<"Basic ">>
DigestPrefix == <<"Digest username=\"">>

BasicHeader(user, pswd) ==
    DropNewlines(BasicPrefix \o encodestring(user \o Colon \o pswd))

\* The six fields every Digest header has.
DigestHeaderBase(user, details, url, response) ==
    DigestPrefix \o Fmt(user)
        \o <<"\", realm=\"">> \o Fmt(DictGet(details, K_realm))
        \o <<"\", nonce=\"">> \o Fmt(DictGet(details, K_nonce))
        \o <<"\", uri=\"">> \o Fmt(url)
        \o <<"\", response=">> \o response
        \o <<", algorithm=">> \o Fmt(DictGet(details, K_algorithm))

\* The three fields added when the challenge has a qop.
DigestHeaderQop(details) ==
    <<", cnonce=\"">> \o Fmt(DictGet(details, K_cnonce))
        \o <<"\", qop=">> \o Fmt(DictGet(details, K_qop))
        \o <<", nc=">> \o Fmt(DictGet(details, K_nc))

DigestHeader(user, details, url, response) ==
    IF Truthy(DictGet(details, K_qop))
    THEN DigestHeaderBase(user, details, url, response) \o DigestHeaderQop(details)
    ELSE DigestHeaderBase(user, details, url, response)

\* calcResponse(calcHA1(...), ...) as handleStatus_401 calls it: the
\* arguments are evaluated first, so an error of calcHA1 comes first.
DigestResponse(user, pswd, details, method, url) ==
    LET HA1 == calcHA1(DictGet(details, K_algorithm), user,
                       DictGet(details, K_realm), pswd,
                       DictGet(details, K_nonce), DictGet(details, K_cnonce),
                       None)
    IN  IF HA1.err # "none" THEN HA1
        ELSE calcResponse(HA1.val, DictGet(details, K_algorithm),
                          DictGet(details, K_nonce), DictGet(details, K_nc),
                          DictGet(details, K_cnonce), DictGet(details, K_qop),
                          method, url, None)

----------------------------------------------------------------------------
(* AuthorizedHTTPGetter.handleStatus_401 as a function of the factory and  *)
(* of the response's WWW-Authenticate header.                              *)

\* What one run of the handler does: the exception it raises ("none" when it
\* returns), the results it hands to the deferred, the factory as it leaves
\* it, whether it calls connect, whether it got to read the header.
Effect(exc, errbacks, f, conn, read) ==
    [exc |-> exc, errback |-> errbacks, factory |-> f, connect |-> conn,
     read |-> read]

\* A handler that never takes the no-credentials branch.
HasUsernameAlways(f) == TRUE

\* hasattr(self.factory, "username")
HasUsername(f) == f.hasUsername

\* A handler that never finds the retried attribute.
AlreadyRetriedNever(f) == FALSE

\* hasattr(self.factory, "retried")
AlreadyRetried(f) == f.retried

\* if digestAvailable and details
UseDigest(ch) == ch.digestAvailable /\ ch.details # EmptyDict

\* elif basicAvailable
UseBasic(ch) == ch.basicAvailable

SetAuthorization(f, value) ==
    [f EXCEPT !.headers = DictSet(@, "Authorization", value)]

\* Lines 379-489, the factory not yet retried.
Authenticate(f, wwwauth) ==
    LET f1 == [f EXCEPT !.retried = TRUE]
        ch == ParseChallenge(wwwauth)
    IN  IF ch.err # "none" THEN Effect(ch.err, <<>>, f1, FALSE, TRUE)
        ELSE IF UseDigest(ch.val)
        THEN LET r == DigestResponse(f.username, f.password, ch.val.details,
                                     f.method, f.url)
             IN  IF r.err # "none" THEN Effect(r.err, <<>>, f1, FALSE, TRUE)
                 ELSE Effect("none", <<>>,
                             SetAuthorization(f1,
                                 DigestHeader(f.username, ch.val.details,
                                              f.url, r.val)),
                             TRUE, TRUE)
        ELSE IF UseBasic(ch.val)
        THEN Effect("none", <<>>,
                    SetAuthorization(f1, BasicHeader(f.username, f.password)),
                    TRUE, TRUE)
        ELSE Effect("none", <<Unauthorized(MsgNoScheme)>>, f1, FALSE, TRUE)

handleStatus_401(f, wwwauth) ==
    IF ~HasUsername(f)
    THEN Effect("none", <<Unauthorized(MsgAuthenticationRequired)>>, f,
                FALSE, FALSE)
    ELSE IF AlreadyRetried(f)
    THEN Effect("none", <<Unauthorized(MsgCouldNotAuthenticate(f.username))>>,
                f, FALSE, FALSE)
    ELSE Authenticate(f, wwwauth)

----------------------------------------------------------------------------
(* The WWW-Authenticate values a server is let to send.                    *)

Sep == <<",", " ">>
Quoted(v) == <<"\"">> \o v \o <<"\"">>
Directive(k, v) == k \o <<"=">> \o v

P_realm   == Directive(K_realm, Quoted(<<"t">>))
P_nonce   == Directive(K_nonce, Quoted(<<"x">>))
P_md5     == Directive(K_algorithm, A_md5)
P_MD5     == Directive(K_algorithm, <<"M", "D", "5">>)
P_sha     == Directive(K_algorithm, A_sha)
P_md5sess == Directive(K_algorithm, A_md5sess)
P_qop     == Directive(K_qop, Quoted(<<"a", "u", "t", "h">>))
P_nc      == Directive(K_nc, <<"1">>)
P_cnonce  == Directive(K_cnonce, Quoted(<<"c">>))

W_Basic_  == <<"B", "a", "s", "i", "c", " ">>
W_DIGEST_ == <<"D", "I", "G", "E", "S", "T", " ">>
W_negotiate_ == <<"n", "e", "g", "o", "t", "i", "a", "t", "e", " ">>

I_basic      == W_basic_ \o P_realm
I_Basic      == W_Basic_ \o P_realm
I_digest     == W_digest_ \o P_realm \o Sep \o P_nonce \o Sep \o P_md5
I_DIGEST     == W_DIGEST_ \o P_realm \o Sep \o P_nonce \o Sep \o P_md5
I_noNonce    == W_digest_ \o P_realm \o Sep \o P_md5
I_noRealm    == W_digest_ \o P_nonce \o Sep \o P_md5
I_noAlg      == W_digest_ \o P_realm \o Sep \o P_nonce
\* the example of the design: realm="t", nonce="x", qop="auth", algorithm=MD5
I_example    == W_digest_ \o P_realm \o Sep \o P_nonce \o Sep \o P_qop \o Sep \o P_MD5
I_qop        == W_digest_ \o P_realm \o Sep \o P_nonce \o Sep \o P_md5 \o Sep \o P_qop
I_qopFull    == W_digest_ \o P_realm \o Sep \o P_nonce \o Sep \o P_sha \o Sep
                    \o P_qop \o Sep \o P_nc \o Sep \o P_cnonce
I_sess       == W_digest_ \o P_realm \o Sep \o P_nonce \o Sep \o P_md5sess
I_sessFull   == W_digest_ \o P_realm \o Sep \o P_nonce \o Sep \o P_md5sess
                    \o Sep \o P_cnonce
I_noEquals   == W_digest_ \o K_realm
I_emptyValue == W_digest_ \o K_realm \o <<"=">>
I_negotiate  == W_negotiate_ \o <<"x">>

Items ==
    {I_basic, I_Basic, I_digest, I_DIGEST, I_noNonce, I_noRealm, I_noAlg,
     I_example, I_qop, I_qopFull, I_sess, I_sessFull, I_noEquals, I_emptyValue, I_negotiate}

SeqsUpTo(S, n) == UNION {[1..m -> S] : m \in 0..n}

\* Every header of at most MaxItems values, and the response without one.
Headers == {NoHeader} \cup {HeaderList(s) : s \in SeqsUpTo(Items, MaxItems)}

\* The headers a server answers a retry with, and those of the two-cycle
\* specification.
FewHeaders ==
    {NoHeader, HeaderList(<<I_basic>>), HeaderList(<<I_digest>>),
     HeaderList(<<I_Basic>>), HeaderList(<<I_basic, I_qop>>)}

\* self.status is the status code as text.
SC_UNAUTHORIZED == "401"
Statuses == {"200", "404", SC_UNAUTHORIZED}

----------------------------------------------------------------------------
(* The requests a caller makes.                                            *)

NoAccount == [hasUsername |-> FALSE, username |-> None, password |-> None]
Account(u, p) == [hasUsername |-> TRUE, username |-> <<u>>, password |-> <<p>>]
Alice == Account("alice", "secret")
Bob == Account("bob", "hunter2")

Target(scheme, host, port) ==
    [method |-> <<"POST">>, url |-> <<"/inbox">>, scheme |-> scheme,
     host |-> host, port |-> port]
Targets == {Target("http", "cal.example.com", 8008),
            Target("https", "cal.example.com", 8443)}

InitialHeaders == DictSet(EmptyDict, "Content-Type", <<"text/calendar">>)

\* The factory a caller builds for one request: no retried attribute yet.
NewFactory(account, target) ==
    [hasUsername |-> account.hasUsername, username |-> account.username,
     password |-> account.password, retried |-> FALSE,
     headers |-> InitialHeaders, method |-> target.method, url |-> target.url,
     scheme |-> target.scheme, host |-> target.host, port |-> target.port,
     waiting |-> TRUE, deferred |-> <<>>]

\* factory.page(response), factory.noPage(reason): the deferred is fired if
\* the factory is still waiting, and the factory stops waiting.
page(f, result) ==
    IF f.waiting
    THEN [f EXCEPT !.waiting = FALSE, !.deferred = Append(@, result)]
    ELSE f
noPage(f, reason) ==
    IF f.waiting
    THEN [f EXCEPT !.waiting = FALSE, !.deferred = Append(@, reason)]
    ELSE f

\* A protocol that reports no loss at all.
connectionLostSilent(conn, f) == f

\* connectionLost of the protocol: the loss is reported to the factory
\* unless quietLoss is set.
connectionLost(conn, f) ==
    IF conn.quietLoss THEN f ELSE noPage(f, ConnectionFailure)

\* The request as it goes out on a connection of the factory.
Request(f) ==
    [method |-> f.method, url |-> f.url, scheme |-> f.scheme, host |-> f.host,
     port |-> f.port, headers |-> f.headers]

\* connect(GAIEndpoint(reactor, host, port[, ssl context]), self.factory).
\* util.py calls connect and neither defines nor imports it; it is taken
\* to do what the design says of it: open a new connection to the factory's
\* host and port, with a new protocol instance (quietLoss 0) that sends the
\* factory's request.
connect(endpoint, f) ==
    [state |-> "open", quietLoss |-> FALSE, endpoint |-> endpoint,
     request |-> Request(f)]

\* GAIEndpoint(reactor, host, port[, ssl.ClientContextFactory()])
GAIEndpoint(host, port, ssl) == [host |-> host, port |-> port, ssl |-> ssl]

\* An endpoint that never uses TLS.
RetryEndpointPlain(f) == GAIEndpoint(f.host, f.port, FALSE)

\* The endpoint of the retry: with a TLS context iff the scheme is https.
RetryEndpoint(f) == GAIEndpoint(f.host, f.port, f.scheme = "https")

----------------------------------------------------------------------------
(* State.                                                                  *)

Cycles == {"A", "B"}

VARIABLES
    pc,       \* per cycle: "idle", "sent" (a response is awaited), "done"
              \* (the deferred has fired), "raised" (the handler raised)
    factory,  \* per cycle: the HTTPClientFactory and the attributes set on it
    conns,    \* per cycle: the connections opened, oldest first
    resp,     \* per cycle: the status codes received, oldest first
    wwwauth,  \* per cycle: the header handleStatus_401 read at line 384
    exc,      \* per cycle: the exception handleStatus_401 raised, or "none"
    prior,    \* per cycle: an earlier request of this caller has ended
    calc      \* a call of calcHA1 or calcResponse: its arguments and result

vars == <<pc, factory, conns, resp, wwwauth, exc, prior, calc>>

\* No call of the calculators is being looked at.
NoCall == [fn |-> "none"]

NotRead == [read |-> FALSE, header |-> NoHeader]
WasRead(h) == [read |-> TRUE, header |-> h]

Init ==
    /\ pc = [c \in Cycles |-> "idle"]
    /\ factory = [c \in Cycles |-> NewFactory(NoAccount, Target("http", "", 0))]
    /\ conns = [c \in Cycles |-> <<>>]
    /\ resp = [c \in Cycles |-> <<>>]
    /\ wwwauth = [c \in Cycles |-> NotRead]
    /\ exc = [c \in Cycles |-> "none"]
    /\ prior = [c \in Cycles |-> FALSE]
    /\ calc = NoCall

----------------------------------------------------------------------------
(* Actions.                                                                *)

\* Every protocol instance writing to one shared object.
FactoryShared(c) == "A"

\* The factory that the protocol instance of cycle c has as self.factory.
FactoryOf(c) == c

\* A handler registered for 404 as well.
HandlerForClientErrors(status) ==
    IF status \in {SC_UNAUTHORIZED, "404"}
    THEN "handleStatus_401" ELSE "handleStatusDefault"

\* The handle* method the response's status selects.
HandlerFor(status) ==
    IF status = SC_UNAUTHORIZED THEN "handleStatus_401" ELSE "handleStatusDefault"

\* A handler that sets quietLoss and leaves the connection open.
LoseQuietlyKeepOpen(conn) == [conn EXCEPT !.quietLoss = TRUE]

\* A handler that closes the connection without setting quietLoss.
LoseLoudly(conn) == [conn EXCEPT !.state = "closing"]

\* self.quietLoss = 1; self.transport.loseConnection()
LoseQuietly(conn) == [conn EXCEPT !.quietLoss = TRUE, !.state = "closing"]

Current(c) == Len(conns[c])

\* A caller starts a request cycle: a new factory, and the first request.
getPage(c, accounts) ==
    /\ pc[c] \in {"idle", "done", "raised"}
    /\ \E account \in accounts, target \in Targets :
         LET f == NewFactory(account, target)
         IN  /\ factory' = [factory EXCEPT ![c] = f]
             /\ conns' = [conns EXCEPT
                            ![c] = <<connect(GAIEndpoint(target.host, target.port,
                                                         target.scheme = "https"),
                                             f)>>]
    /\ pc' = [pc EXCEPT ![c] = "sent"]
    /\ resp' = [resp EXCEPT ![c] = <<>>]
    /\ wwwauth' = [wwwauth EXCEPT ![c] = NotRead]
    /\ exc' = [exc EXCEPT ![c] = "none"]
    /\ prior' = [prior EXCEPT ![c] = (pc[c] # "idle")]
    /\ UNCHANGED calc

\* A 401 response arrives and handleStatus_401 runs to its end. The header
\* comes from `first` on the first attempt and from `later` on a retry.
Receive401(c, first, later) ==
    /\ pc[c] = "sent"
    /\ \E status \in Statuses, h \in (IF resp[c] = <<>> THEN first ELSE later) :
         /\ HandlerFor(status) = "handleStatus_401"
         /\ LET k == FactoryOf(c)
                e == handleStatus_401(factory[k], h)
                closed == [conns[c] EXCEPT ![Current(c)] = LoseQuietly(@)]
            IN  /\ factory' = [factory EXCEPT
                                 ![k] = [e.factory EXCEPT
                                           !.deferred = @ \o e.errback]]
                /\ conns' = [conns EXCEPT
                               ![c] = IF e.connect
                                      THEN Append(closed,
                                                  connect(RetryEndpoint(e.factory),
                                                          e.factory))
                                      ELSE closed]
                /\ wwwauth' = [wwwauth EXCEPT
                                 ![c] = IF e.read THEN WasRead(h) ELSE @]
                /\ exc' = [exc EXCEPT ![c] = e.exc]
                /\ pc' = [pc EXCEPT
                            ![c] = IF e.exc # "none" THEN "raised"
                                   ELSE IF e.connect THEN "sent"
                                   ELSE "done"]
         /\ resp' = [resp EXCEPT ![c] = Append(@, status)]
    /\ UNCHANGED <<prior, calc>>

\* A response of any other status arrives: the page goes to the caller.
ReceiveOther(c) ==
    /\ pc[c] = "sent"
    /\ \E status \in Statuses :
         /\ HandlerFor(status) # "handleStatus_401"
         /\ factory' = [factory EXCEPT
                          ![FactoryOf(c)] = page(@, Page(status))]
         /\ resp' = [resp EXCEPT ![c] = Append(@, status)]
    /\ conns' = [conns EXCEPT ![c][Current(c)].state = "closing"]
    /\ pc' = [pc EXCEPT ![c] = "done"]
    /\ UNCHANGED <<wwwauth, exc, prior, calc>>

\* The connection is lost before a response arrives.
TransportFailure(c) ==
    /\ pc[c] = "sent"
    /\ conns[c][Current(c)].state = "open"
    /\ conns' = [conns EXCEPT ![c][Current(c)].state = "closed"]
    /\ factory' = [factory EXCEPT
                     ![FactoryOf(c)] = connectionLost(conns[c][Current(c)], @)]
    /\ pc' = [pc EXCEPT ![c] = "done"]
    /\ UNCHANGED <<resp, wwwauth, exc, prior, calc>>

\* A connection that was asked to close is closed, and the protocol's
\* connectionLost runs.
ConnectionLost(c) ==
    /\ \E i \in 1..Len(conns[c]) :
         /\ conns[c][i].state = "closing"
         /\ conns' = [conns EXCEPT ![c][i].state = "closed"]
         /\ factory' = [factory EXCEPT
                          ![FactoryOf(c)] = connectionLost(conns[c][i], @)]
    /\ UNCHANGED <<pc, resp, wwwauth, exc, prior, calc>>

----------------------------------------------------------------------------
(* Specifications.                                                         *)

\* One caller, every header of the bound.
Next ==
    \E c \in {"A"} :
        \/ getPage(c, {NoAccount, Alice})
        \/ Receive401(c, Headers, FewHeaders)
        \/ ReceiveOther(c)
        \/ TransportFailure(c)
        \/ ConnectionLost(c)

Spec == Init /\ [][Next]_vars

\* Two callers with an account each, their cycles interleaved.
AccountsOf(c) == IF c = "A" THEN {NoAccount, Alice} ELSE {Bob}

NextPair ==
    \E c \in Cycles :
        \/ getPage(c, AccountsOf(c))
        \/ Receive401(c, FewHeaders, FewHeaders)
        \/ ReceiveOther(c)
        \/ TransportFailure(c)
        \/ ConnectionLost(c)

SpecPair == Init /\ [][NextPair]_vars

----------------------------------------------------------------------------
(* The calculators on their own: a call is drawn, then made.               *)

Pending == [err |-> "pending", val |-> <<>>]

\* Arguments: absent (None), empty, or a value.
Optional(v) == {None, <<>>, v}

AlgorithmNames == {A_md5, A_md5sess, A_sha, <<"MD5">>, None}
SomeHA1 == <<"hex(", "ha1", ")">>
PreHA1s == {None, <<>>, SomeHA1, <<"z", "z">>}

CallsHA1 ==
    [fn : {"calcHA1"}, pszAlg : AlgorithmNames,
     pszUserName : Optional(<<"alice">>), pszRealm : Optional(<<"t">>),
     pszPassword : Optional(<<"secret">>),
     pszNonce : {None, <<"x">>}, pszCNonce : {None, <<"c">>},
     preHA1 : PreHA1s, done : {FALSE}, result : {Pending}]

CallsResponse ==
    [fn : {"calcResponse"}, HA1 : {SomeHA1}, algo : AlgorithmNames \ {None},
     pszNonce : {<<"x">>}, pszNonceCount : Optional(<<"1">>),
     pszCNonce : Optional(<<"c">>), pszQop : {None, <<>>, <<"auth">>, Q_authint},
     pszMethod : {<<"POST">>}, pszDigestUri : {<<"/inbox">>},
     pszHEntity : {None, <<"e">>}, done : {FALSE}, result : {Pending}]

InitCalc ==
    /\ pc = [c \in Cycles |-> "idle"]
    /\ factory = [c \in Cycles |-> NewFactory(NoAccount, Target("http", "", 0))]
    /\ conns = [c \in Cycles |-> <<>>]
    /\ resp = [c \in Cycles |-> <<>>]
    /\ wwwauth = [c \in Cycles |-> NotRead]
    /\ exc = [c \in Cycles |-> "none"]
    /\ prior = [c \in Cycles |-> FALSE]
    /\ (calc \in CallsHA1 \/ calc \in CallsResponse)

Call_calcHA1 ==
    /\ calc.fn = "calcHA1" /\ ~calc.done
    /\ calc' = [calc EXCEPT
                  !.done = TRUE,
                  !.result = calcHA1(calc.pszAlg, calc.pszUserName, calc.pszRealm,
                                     calc.pszPassword, calc.pszNonce,
                                     calc.pszCNonce, calc.preHA1)]
    /\ UNCHANGED <<pc, factory, conns, resp, wwwauth, exc, prior>>

Call_calcResponse ==
    /\ calc.fn = "calcResponse" /\ ~calc.done
    /\ calc' = [calc EXCEPT
                  !.done = TRUE,
                  !.result = calcResponse(calc.HA1, calc.algo, calc.pszNonce,
                                          calc.pszNonceCount, calc.pszCNonce,
                                          calc.pszQop, calc.pszMethod,
                                          calc.pszDigestUri, calc.pszHEntity)]
    /\ UNCHANGED <<pc, factory, conns, resp, wwwauth, exc, prior>>

NextCalc == Call_calcHA1 \/ Call_calcResponse

SpecCalc == InitCalc /\ [][NextCalc]_vars

----------------------------------------------------------------------------
(* Notions the properties are stated with.                                 *)

\* The Authorization header of the i-th request of cycle c.
AuthorizationOf(c, i) == DictGet(conns[c][i].request.headers, "Authorization")

IsBasicValue(v) == startswith(v, BasicPrefix)
IsDigestValue(v) == startswith(v, DigestPrefix)

\* The first response of cycle c was a 401.
FirstWas401(c) == resp[c] # <<>> /\ resp[c][1] = SC_UNAUTHORIZED

\* Both attempts of cycle c were answered by a 401.
TwoChallenges(c) ==
    Len(resp[c]) >= 2 /\ resp[c][1] = SC_UNAUTHORIZED /\ resp[c][2] = SC_UNAUTHORIZED

\* The scheme token of a challenge value ends at its first space.
SchemeLen(item) ==
    IF \E i \in 1..Len(item) : item[i] = " "
    THEN (CHOOSE i \in 1..Len(item) :
              item[i] = " " /\ \A j \in 1..(i - 1) : item[j] # " ") - 1
    ELSE Len(item)

UpperCase == <<"A", "B", "C", "D", "E", "F", "G", "H", "I", "J", "K", "L", "M",
               "N", "O", "P", "Q", "R", "S", "T", "U", "V", "W", "X", "Y", "Z">>
LowerCase == <<"a", "b", "c", "d", "e", "f", "g", "h", "i", "j", "k", "l", "m",
               "n", "o", "p", "q", "r", "s", "t", "u", "v", "w", "x", "y", "z">>

ToLower(ch) ==
    IF \E i \in 1..Len(UpperCase) : UpperCase[i] = ch
    THEN LowerCase[CHOOSE i \in 1..Len(UpperCase) : UpperCase[i] = ch]
    ELSE ch

\* The challenge value with its scheme token in lower case.
LowerScheme(item) ==
    [i \in 1..Len(item) |->
        IF i <= SchemeLen(item) THEN ToLower(item[i]) ELSE item[i]]

\* The header with the scheme token of every value in lower case.
LowerSchemes(h) ==
    [present |-> h.present,
     items |-> [i \in 1..Len(h.items) |-> LowerScheme(h.items[i])]]

\* What a header offers, schemes compared without regard to case.
NamesBasic(item) == startswith(LowerScheme(item), W_basic_)
NamesDigest(item) == startswith(LowerScheme(item), W_digest_)
OffersBasic(h) == \E i \in 1..Len(h.items) : NamesBasic(h.items[i])
OffersDigest(h) == \E i \in 1..Len(h.items) : NamesDigest(h.items[i])

\* The directives of one Digest challenge value.
Directives(item) == ParseParts(split(SliceFrom(item, 7), ","), EmptyDict)

RequiredDirectives == {K_nonce, K_realm, K_algorithm}

\* A Digest challenge with nonce, realm and algorithm.
UsableDigest(item) ==
    /\ NamesDigest(item)
    /\ Directives(item).err = "none"
    /\ RequiredDirectives \subseteq DOMAIN Directives(item).val

\* A well-formed Digest challenge without one of nonce, realm, algorithm.
IncompleteDigest(item) ==
    /\ NamesDigest(item)
    /\ Directives(item).err = "none"
    /\ ~(RequiredDirectives \subseteq DOMAIN Directives(item).val)

OffersUsableDigest(h) == \E i \in 1..Len(h.items) : UsableDigest(h.items[i])

\* The header has Digest challenges, each of them incomplete.
OnlyIncompleteDigest(h) ==
    /\ OffersDigest(h)
    /\ \A i \in 1..Len(h.items) :
          NamesDigest(h.items[i]) => IncompleteDigest(h.items[i])

\* The factory of cycle c as it was when the first response arrived.
AsBuilt(f) ==
    [f EXCEPT !.retried = FALSE, !.headers = InitialHeaders, !.deferred = <<>>]

\* Cycle c has handled its first 401 and nothing has happened to it since.
JustChallenged(c) ==
    /\ wwwauth[c].read
    /\ Len(resp[c]) = 1
    /\ Len(conns[c]) = 2 => pc[c] = "sent"

----------------------------------------------------------------------------
(* C1: whatever the server answers, a request cycle sends at most two      *)
(* requests: the first attempt and at most one retry.                      *)
C1_AtMostOneRetry == \A c \in Cycles : Len(conns[c]) <= 2

\* A cycle that sent its retry and was challenged again.
C1_Witness == \E c \in Cycles : Len(conns[c]) = 2 /\ TwoChallenges(c)

(* C2: with credentials configured, a second consecutive 401 ends the      *)
(* cycle with Unauthorized "Could not authenticate user <username>" naming *)
(* the configured user, whatever scheme the retry used, and the cycle has  *)
(* sent two requests and never sends a third.                              *)
C2_SecondChallengeFails ==
    \A c \in Cycles :
        (factory[c].hasUsername /\ TwoChallenges(c)) =>
            /\ pc[c] = "done"
            /\ factory[c].deferred =
                 <<Unauthorized(<<"Could not authenticate user ">>
                                  \o factory[c].username
                                  \o <<" with calendar server">>)>>
            /\ Len(resp[c]) = 2
            /\ Len(conns[c]) = 2

\* Two 401 responses, the second one to a retry that carried Digest.
C2_Witness ==
    \E c \in Cycles :
        /\ factory[c].hasUsername
        /\ TwoChallenges(c)
        /\ Len(conns[c]) = 2
        /\ IsDigestValue(AuthorizationOf(c, 2))

(* C3: a 401 for a request without credentials fails the cycle at once     *)
(* with Unauthorized "Authentication required", whatever the challenge      *)
(* offers: no Authorization header is set and no connection is opened.     *)
C3_NoCredentialsFails ==
    \A c \in Cycles :
        (~factory[c].hasUsername /\ FirstWas401(c)) =>
            /\ pc[c] = "done"
            /\ factory[c].deferred =
                 <<Unauthorized(<<"Authentication required">>)>>
            /\ "Authorization" \notin DOMAIN factory[c].headers
            /\ Len(conns[c]) = 1
            /\ Len(resp[c]) = 1

\* A request without credentials that got a 401.
C3_Witness ==
    \E c \in Cycles :
        ~factory[c].hasUsername /\ FirstWas401(c) /\ conns[c][1].state = "closing"

\* Cycle c takes a step in which it receives a response of status s.
Receives(c, s) ==
    /\ Len(resp'[c]) = Len(resp[c]) + 1
    /\ resp'[c][Len(resp'[c])] = s

(* C4: a response whose status is not 401, on the first attempt or on the  *)
(* retry, ends the cycle by handing that response to the caller; the step  *)
(* sets no Authorization header, leaves the retried flag alone and opens   *)
(* no connection.                                                          *)
C4_Only401Authenticates ==
    [][\A c \in Cycles : \A s \in Statuses \ {"401"} :
          Receives(c, s) =>
              /\ pc'[c] = "done"
              /\ factory'[c].deferred = Append(factory[c].deferred, Page(s))
              /\ factory'[c].headers = factory[c].headers
              /\ factory'[c].retried = factory[c].retried
              /\ Len(conns'[c]) = Len(conns[c])]_vars

\* A retry answered by a 404, handed to the caller.
C4_Witness ==
    \E c \in Cycles :
        /\ resp[c] = <<SC_UNAUTHORIZED, "404">>
        /\ factory[c].deferred = <<Page("404")>>
        /\ factory[c].retried

(* C5: when the first 401 offers a usable Digest challenge and Basic, a    *)
(* retry carries a Digest Authorization header and not a Basic one; a      *)
(* retry carries Basic only if no usable Digest challenge was offered.     *)
C5_DigestPreferred ==
    \A c \in Cycles :
        (wwwauth[c].read /\ Len(conns[c]) = 2) =>
            LET h == wwwauth[c].header
                a == AuthorizationOf(c, 2)
            IN  /\ (OffersUsableDigest(h) /\ OffersBasic(h)) =>
                       (IsDigestValue(a) /\ ~IsBasicValue(a))
                /\ IsBasicValue(a) => ~OffersUsableDigest(h)

(* C6: when the first 401 offers only Basic and credentials are            *)
(* configured, one retry is sent with the Basic header of the configured   *)
(* user name and password; an answer other than 401 then ends the cycle    *)
(* with that page, and a 401 ends it with Unauthorized.                    *)
C6_BasicOnlyRetries ==
    \A c \in Cycles :
        (factory[c].hasUsername /\ wwwauth[c].read
         /\ wwwauth[c].header.present
         /\ OffersBasic(wwwauth[c].header) /\ ~OffersDigest(wwwauth[c].header)) =>
            /\ Len(conns[c]) = 2
            /\ AuthorizationOf(c, 2) =
                 <<"Basic ", "b64(">> \o factory[c].username \o <<":">>
                     \o factory[c].password \o <<")">>
            /\ Len(resp[c]) = 2 =>
                 /\ pc[c] = "done"
                 /\ Len(factory[c].deferred) = 1
                 /\ factory[c].deferred[1].kind =
                      (IF resp[c][2] = "401" THEN "Unauthorized" ELSE "page")

(* C7: the handler decides alike for a header and for the same header with *)
(* its scheme tokens in lower case: the same exception or none, the same   *)
(* Authorization header, the same failure reported, the same retry.        *)
C7_SchemeCaseIgnored ==
    \A c \in Cycles :
        JustChallenged(c) =>
            LET e == handleStatus_401(AsBuilt(factory[c]),
                                      LowerSchemes(wwwauth[c].header))
            IN  /\ e.exc = exc[c]
                /\ e.factory.headers = factory[c].headers
                /\ e.errback = factory[c].deferred
                /\ e.connect = (Len(conns[c]) = 2)

(* C8: a Digest challenge without nonce, realm or algorithm is not usable: *)
(* the handler raises nothing and sends no Digest header; it retries with  *)
(* Basic when Basic is offered too, and else reports Unauthorized.         *)
C8_IncompleteDigestUnusable ==
    \A c \in Cycles :
        (JustChallenged(c) /\ OnlyIncompleteDigest(wwwauth[c].header)) =>
            /\ exc[c] = "none"
            /\ ~(Len(conns[c]) = 2 /\ IsDigestValue(AuthorizationOf(c, 2)))
            /\ OffersBasic(wwwauth[c].header) =>
                 (Len(conns[c]) = 2 /\ IsBasicValue(AuthorizationOf(c, 2)))
            /\ ~OffersBasic(wwwauth[c].header) =>
                 /\ Len(conns[c]) = 1
                 /\ Len(factory[c].deferred) = 1
                 /\ factory[c].deferred[1].kind = "Unauthorized"

(* C9: a first 401 with credentials whose WWW-Authenticate header is       *)
(* absent, empty or names neither Basic nor Digest ends the cycle with the *)
(* Unauthorized failure for no usable scheme, and no request is reissued.  *)
C9_NoSchemeFails ==
    \A c \in Cycles :
        (wwwauth[c].read /\ ~OffersBasic(wwwauth[c].header)
         /\ ~OffersDigest(wwwauth[c].header)) =>
            /\ exc[c] = "none"
            /\ pc[c] = "done"
            /\ factory[c].deferred =
                 <<Unauthorized(<<"Mail gateway not able to process reply; calendar server returned 401 and doesn't support basic or digest">>)>>
            /\ Len(conns[c]) = 1

\* A cycle begins without the retried attribute and without Authorization.
StartsUnretried(c) ==
    (pc[c] = "sent" /\ resp[c] = <<>>) =>
        (~factory[c].retried /\ "Authorization" \notin DOMAIN factory[c].headers)

\* The first 401 of a cycle with credentials gets past the retried test,
\* also in a cycle begun after an earlier one ended.
OwnRetry(c) ==
    (factory[c].hasUsername /\ FirstWas401(c)) =>
        (wwwauth[c].read /\ factory[c].retried)

\* A 401 received by cycle d leaves the other cycle as it was.
OthersUntouched(c, d) ==
    (c # d /\ Receives(d, "401")) =>
        /\ factory'[c] = factory[c]
        /\ pc'[c] = pc[c]
        /\ exc'[c] = exc[c]
        /\ conns'[c] = conns[c]

(* C10: the retried flag belongs to one request cycle: a cycle begins with *)
(* it unset, a 401 handled in one cycle changes nothing of the flag, the   *)
(* headers, the connections or the outcome of the other, and a cycle begun *)
(* after an earlier one ended has its own retry.                           *)
C10_FlagPerCycle ==
    /\ [](\A c \in Cycles : StartsUnretried(c) /\ OwnRetry(c))
    /\ [][\A c, d \in Cycles : OthersUntouched(c, d)]_vars

\* A second cycle of one caller on its retry while the other caller's
\* cycle is on its retry too.
C10_Witness ==
    \E c, d \in Cycles :
        /\ c # d
        /\ prior[c] /\ factory[c].retried /\ Len(conns[c]) = 2 /\ pc[c] = "sent"
        /\ factory[d].retried /\ Len(conns[d]) = 2 /\ pc[d] = "sent"

----------------------------------------------------------------------------
\* The current connection of cycle c is lost while its request is unanswered.
LostUnanswered(c) ==
    /\ pc[c] = "sent"
    /\ conns[c][Current(c)].state = "open"
    /\ Len(conns'[c]) = Len(conns[c])
    /\ conns'[c][Current(c)].state = "closed"

(* C11: a connection lost before its response, on the first attempt or on  *)
(* the retry, ends the cycle at once with that transport failure as the    *)
(* only thing delivered: it is not an Unauthorized, the retried flag and   *)
(* the headers stay as they were, and no connection is opened.             *)
C11_TransportFailureEnds ==
    [][\A c \in Cycles :
          LostUnanswered(c) =>
              /\ pc'[c] = "done"
              /\ factory'[c].deferred = <<ConnectionFailure>>
              /\ factory'[c].retried = factory[c].retried
              /\ factory'[c].headers = factory[c].headers
              /\ resp'[c] = resp[c]
              /\ \A i \in 1..Len(conns[c]) :
                    conns'[c][i].request = conns[c][i].request]_vars

\* The retry of a challenged cycle was lost before its response.
C11_Witness ==
    \E c \in Cycles :
        /\ Len(conns[c]) = 2 /\ conns[c][2].state = "closed"
        /\ Len(resp[c]) = 1
        /\ factory[c].retried
        /\ factory[c].deferred = <<ConnectionFailure>>

----------------------------------------------------------------------------
\* A call of fn that has returned or raised.
Made(fn) == calc.fn = fn /\ calc.done

\* An argument was passed, empty or not.
Supplied(v) == v # None

\* An argument was passed and is not the empty string.
SuppliedNonEmpty(v) == v # None /\ Len(v) > 0

\* calcHA1 refused its arguments and returned no digest.
RefusedPreHA1(r) ==
    r.err = "TypeError"
    /\ r.val = <<"preHA1 is incompatible with the pszUserName, pszRealm, and pszPassword arguments">>

----------------------------------------------------------------------------
\* The two messages a response hash is made of.
QopFormMessage(HA1, nonce, nc, cnonce, qop, HA2) ==
    HA1 \o <<":">> \o nonce \o <<":">> \o nc \o <<":">> \o cnonce
        \o <<":">> \o qop \o <<":">> \o HA2
LegacyFormMessage(HA1, nonce, HA2) == HA1 \o <<":">> \o nonce \o <<":">> \o HA2

\* The response a made call of calcResponse has to return when the qop
\* form is due (qopForm) or not: the hash function is that of the
\* algorithm name in either form.
ResponseDue(qopForm) ==
    LET HA2 == calcHA2(calc.algo, calc.pszQop, calc.pszMethod,
                       calc.pszDigestUri, calc.pszHEntity).val
    IN  EncodeHex(digest(algorithms[calc.algo],
            IF qopForm
            THEN QopFormMessage(calc.HA1, calc.pszNonce, calc.pszNonceCount,
                                calc.pszCNonce, calc.pszQop, HA2)
            ELSE LegacyFormMessage(calc.HA1, calc.pszNonce, HA2)))

(* C13, as stated: a response calcResponse returns is the hash of          *)
(* HA1:nonce:nc:cnonce:qop:HA2 exactly when nc, cnonce and qop are all     *)
(* passed, and the hash of HA1:nonce:HA2 otherwise, whatever the algorithm *)
(* name.                                                                   *)
C13_QopFormWhenAllPresent ==
    (Made("calcResponse") /\ calc.result.err = "none") =>
        calc.result.val =
            ResponseDue(Supplied(calc.pszNonceCount) /\ Supplied(calc.pszCNonce)
                        /\ Supplied(calc.pszQop))

(* C13, amended: a response calcResponse returns is the hash of            *)
(* HA1:nonce:nc:cnonce:qop:HA2 exactly when nc, cnonce and qop are all     *)
(* passed and none of them is the empty string, and the hash of            *)
(* HA1:nonce:HA2 otherwise, whatever the algorithm name.                   *)
C13_QopFormWhenAllNonEmpty ==
    (Made("calcResponse") /\ calc.result.err = "none") =>
        calc.result.val =
            ResponseDue(SuppliedNonEmpty(calc.pszNonceCount)
                        /\ SuppliedNonEmpty(calc.pszCNonce)
                        /\ SuppliedNonEmpty(calc.pszQop))

\* A sha response in the qop form.
C13_Witness ==
    /\ Made("calcResponse")
    /\ calc.algo = A_sha
    /\ calc.pszNonceCount = <<"1">> /\ calc.pszCNonce = <<"c">>
    /\ calc.pszQop = <<"auth">>
    /\ calc.result.err = "none"

----------------------------------------------------------------------------
\* Cycle c, with credentials, has just handled a first 401 whose header is
\* one Digest challenge with its scheme token in lower case.
OneDigestChallenge(c) ==
    /\ JustChallenged(c)
    /\ factory[c].hasUsername
    /\ wwwauth[c].header.present
    /\ Len(wwwauth[c].header.items) = 1
    /\ startswith(wwwauth[c].header.items[1], W_digest_)

\* The index of the first element of s that is tok, 0 if there is none.
IndexOf(s, tok) ==
    IF \E i \in 1..Len(s) : s[i] = tok
    THEN CHOOSE i \in 1..Len(s) : s[i] = tok /\ \A j \in 1..(i - 1) : s[j] # tok
    ELSE 0

\* The header value a is Digest username, realm, nonce, uri, response,
\* algorithm with the values given, then cnonce, qop, nc iff withQop.
HasDigestForm(a, user, realm, nonce, uri, algorithm, withQop) ==
    LET upTo == <<"Digest username=\"">> \o user
                    \o <<"\", realm=\"">> \o realm
                    \o <<"\", nonce=\"">> \o nonce
                    \o <<"\", uri=\"">> \o uri \o <<"\", response=">>
        alg  == <<", algorithm=">> \o algorithm
        at   == IndexOf(a, ", algorithm=")
        rest == SubSeq(a, at + Len(alg), Len(a))
    IN  /\ startswith(a, upTo)
        /\ at > Len(upTo) + 1
        /\ startswith(SubSeq(a, at, Len(a)), alg)
        /\ IF withQop
           THEN /\ startswith(rest, <<", cnonce=\"">>)
                /\ IndexOf(rest, "\", qop=") > 0
                /\ IndexOf(rest, ", nc=") > IndexOf(rest, "\", qop=")
           ELSE rest = <<>>

(* C14: for every usable Digest challenge (realm, nonce and algorithm      *)
(* present, the design's example with algorithm=MD5 among them) and        *)
(* configured credentials, the retry is sent and its Authorization header  *)
(* is Digest username, realm, nonce, uri, response, algorithm with the     *)
(* challenge's realm, nonce, algorithm and the request URI, followed by    *)
(* cnonce, qop, nc exactly when the challenge has a qop.                   *)
C14_DigestHeaderForm ==
    \A c \in Cycles :
        (OneDigestChallenge(c) /\ UsableDigest(wwwauth[c].header.items[1])) =>
            /\ Len(conns[c]) = 2
            /\ LET d == Directives(wwwauth[c].header.items[1]).val
               IN  HasDigestForm(AuthorizationOf(c, 2), factory[c].username,
                                 d[K_realm], d[K_nonce], conns[c][1].request.url,
                                 d[K_algorithm], K_qop \in DOMAIN d)

----------------------------------------------------------------------------
\* v without its outer pair of double quotes, if it has one.
OuterQuotesRemoved(v) ==
    IF Len(v) >= 2 /\ v[1] = "\"" /\ v[Len(v)] = "\""
    THEN SubSeq(v, 2, Len(v) - 1)
    ELSE v

\* The comma-separated pieces of a Digest challenge value.
PartsOf(item) == split(SliceFrom(item, Len(W_digest_)), ",")

(* C15: parsing a Digest challenge never fails, whether or not a directive *)
(* lacks its '=' or its value, and every key=value directive of the        *)
(* challenge, known or not, is in the mapping under its trimmed key with   *)
(* its trimmed value less one outer pair of double quotes.                 *)
C15_ParserTotal ==
    \A c \in Cycles :
        OneDigestChallenge(c) =>
            /\ exc[c] \notin {"ValueError", "IndexError"}
            /\ ParseChallenge(wwwauth[c].header).err = "none"
            /\ LET parts == PartsOf(wwwauth[c].header.items[1])
                   details == ParseChallenge(wwwauth[c].header).val.details
               IN  \A i \in 1..Len(parts) :
                      LET kv == split1(parts[i], "=")
                      IN  Len(kv) = 2 =>
                              DictGet(details, strip(kv[1]))
                                  = OuterQuotesRemoved(strip(kv[2]))

----------------------------------------------------------------------------
\* Cycle c issues its retry in this step.
Retries(c) == Len(conns[c]) = 1 /\ Len(conns'[c]) = 2

\* Dictionaries d and e agree on every key but k.
SameBut(d, e, k) ==
    /\ (DOMAIN d) \ {k} = (DOMAIN e) \ {k}
    /\ \A x \in (DOMAIN d) \ {k} : d[x] = e[x]

(* C16: a step that issues the retry changes nothing of the factory but    *)
(* the retried flag and the Authorization header, and the reissued request *)
(* has the method, URI, scheme, host, port and endpoint of the first one   *)
(* and its headers, Authorization excepted.                                *)
C16_RetryFrame ==
    [][\A c \in Cycles :
          Retries(c) =>
              /\ "Authorization" \in DOMAIN factory'[c].headers
              /\ factory'[c] =
                     [factory[c] EXCEPT
                        !.retried = TRUE,
                        !.headers = DictSet(@, "Authorization",
                                            factory'[c].headers["Authorization"])]
              /\ conns'[c][1].request = conns[c][1].request
              /\ conns'[c][2].endpoint = conns[c][1].endpoint
              /\ LET old == conns[c][1].request
                     new == conns'[c][2].request
                 IN  /\ new.method = old.method /\ new.url = old.url
                     /\ new.scheme = old.scheme
                     /\ new.host = old.host /\ new.port = old.port
                     /\ SameBut(new.headers, old.headers, "Authorization")
                     /\ new.headers = factory'[c].headers]_vars

\* A Digest retry to an https target is in flight.
C16_Witness ==
    \E c \in Cycles :
        /\ Len(conns[c]) = 2 /\ pc[c] = "sent"
        /\ conns[c][2].endpoint.ssl
        /\ IsDigestValue(AuthorizationOf(c, 2))

----------------------------------------------------------------------------
\* The connections of cycle c that are open.
OpenConnections(c) == {i \in 1..Len(conns[c]) : conns[c][i].state = "open"}

(* C17: the attempts of a cycle follow one another: a connection whose     *)
(* request was answered by a 401 has been told to close whenever a retry   *)
(* connection exists or a failure has been reported, a cycle never has two *)
(* connections open, and a retry exists only after the first attempt's     *)
(* 401.                                                                    *)
C17_AttemptsSequential ==
    \A c \in Cycles :
        /\ \A i \in 1..Len(resp[c]) :
              resp[c][i] = SC_UNAUTHORIZED =>
                  conns[c][i].state \in {"closing", "closed"}
        /\ Cardinality(OpenConnections(c)) <= 1
        /\ Len(conns[c]) = 2 => FirstWas401(c)
        /\ Len(resp[c]) <= Len(conns[c])

\* The retry is in flight while the first connection, told to close, has
\* not been lost yet.
C17_Witness ==
    \E c \in Cycles :
        /\ Len(conns[c]) = 2 /\ pc[c] = "sent"
        /\ conns[c][1].state = "closing"
        /\ conns[c][2].state = "open"

----------------------------------------------------------------------------
\* Cycle c has a request out whose response or loss is still to come.
AwaitsResponse(c) == pc[c] = "sent"

\* The caller of cycle c has been given a page or a failure.
Notified(c) == factory[c].deferred # <<>>

(* C18: whatever a 401 carries, a cycle ends: once it has begun and no     *)
(* request of it awaits its response or its loss, the cycle is in Success  *)
(* or Failed and its caller has been notified.                             *)
C18_CycleEnds ==
    \A c \in Cycles :
        (pc[c] # "idle" /\ ~AwaitsResponse(c)) => (pc[c] = "done" /\ Notified(c))

----------------------------------------------------------------------------
\* The elements of s after the first tok and before the first tok2.
Between(s, tok, tok2) == SubSeq(s, IndexOf(s, tok) + 1, IndexOf(s, tok2) - 1)

\* The fields of a Digest Authorization header value.
ResponseField(a) == Between(a, "\", response=", ", algorithm=")
HasQopFields(a) == IndexOf(a, ", cnonce=\"") > 0
CnonceField(a) == Between(a, ", cnonce=\"", "\", qop=")
QopField(a) == Between(a, "\", qop=", ", nc=")
NcField(a) == SubSeq(a, IndexOf(a, ", nc=") + 1, Len(a))

(* C19: the response of a Digest Authorization header is the hash its      *)
(* fields call for: of HA1:nonce:nc:cnonce:qop:HA2 over the header's own   *)
(* nc, cnonce and qop when the header has these fields, of HA1:nonce:HA2   *)
(* when it has not.                                                        *)
C19_HeaderMatchesResponse ==
    \A c \in Cycles :
        (OneDigestChallenge(c) /\ Len(conns[c]) = 2) =>
            LET a == AuthorizationOf(c, 2)
                d == Directives(wwwauth[c].header.items[1]).val
                alg == DictGet(d, K_algorithm)
                nonce == DictGet(d, K_nonce)
                HA1 == calcHA1(alg, factory[c].username, DictGet(d, K_realm),
                               factory[c].password, nonce,
                               DictGet(d, K_cnonce), None).val
                HA2 == calcHA2(alg, DictGet(d, K_qop), factory[c].method,
                               factory[c].url, None).val
            IN  ResponseField(a) =
                    EncodeHex(digest(algorithms[alg],
                        IF HasQopFields(a)
                        THEN QopFormMessage(HA1, nonce, NcField(a),
                                            CnonceField(a), QopField(a), HA2)
                        ELSE LegacyFormMessage(HA1, nonce, HA2)))

----------------------------------------------------------------------------
(* C20: the deferred of a cycle is fired at most once: the loss of a       *)
(* connection the handler closed delivers nothing after an Unauthorized,   *)
(* and while a retry is in flight the first attempt's 401 has delivered    *)
(* nothing.                                                                *)
C20_FiredAtMostOnce ==
    \A c \in Cycles :
        /\ Len(factory[c].deferred) <= 1
        /\ AwaitsResponse(c) => factory[c].deferred = <<>>

\* Both connections of a cycle are lost and closed after the second 401
\* was reported as Unauthorized.
C20_Witness ==
    \E c \in Cycles :
        /\ TwoChallenges(c)
        /\ conns[c][1].state = "closed" /\ conns[c][2].state = "closed"
        /\ Len(factory[c].deferred) = 1
        /\ factory[c].deferred[1].kind = "Unauthorized"

====
